---- MODULE Spec2Model ----
EXTENDS Integers, Sequences, FiniteSets, TLC

(***************************************************************************)
(* Binary64 arithmetic as format_time, create_smooth_scroll and the alpha  *)
(* computation of convert_to_ass use it.                                   *)
(* A finite double x is held exactly as fl + (f1*B^2 + f2*B + f3) / B^3    *)
(* with fl = floor(x) and three 20-bit limbs of fraction (60 fraction      *)
(* bits); every operation computes the exact result and then rounds it to  *)
(* 53 significant bits, ties to even, as IEEE-754 does.  The window covers *)
(* |x| < 2^23 and nonzero magnitudes >= 2^-7, which holds every value the  *)
(* conversion computes from the modelled inputs.                           *)
(***************************************************************************)
MantissaBits == 53
LimbBits == 20
B == 2^LimbBits
FracBits == 3 * LimbBits

Dy(fl, f1, f2, f3) == [fl |-> fl, f1 |-> f1, f2 |-> f2, f3 |-> f3]
FromInt(n) == Dy(n, 0, 0, 0)
FracIsZero(x) == x.f1 = 0 /\ x.f2 = 0 /\ x.f3 = 0

\* limbs that hold more than 20 bits, carried upward
Carry(fl, a1, a2, a3) ==
  LET s2 == a2 + (a3 \div B)
      s1 == a1 + (s2 \div B)
  IN Dy(fl + (s1 \div B), s1 % B, s2 % B, a3 % B)

Negate(x) ==
  IF FracIsZero(x) THEN FromInt(0 - x.fl)
  ELSE Carry(0 - x.fl - 1, B - 1 - x.f1, B - 1 - x.f2, B - x.f3)

RECURSIVE Log2(_)
Log2(n) == IF n <= 1 THEN 0 ELSE 1 + Log2(n \div 2)

\* binary exponent of a positive value
Exponent(x) ==
  IF x.fl >= 1 THEN Log2(x.fl)
  ELSE IF x.f1 > 0 THEN Log2(x.f1) - LimbBits
  ELSE IF x.f2 > 0 THEN Log2(x.f2) - 2 * LimbBits
  ELSE Log2(x.f3) - 3 * LimbBits

\* round a non-negative exact value to 53 significant bits, ties to even;
\* sticky says that the exact value has nonzero bits below the 60 held
RoundMagnitude(x, sticky) ==
  IF x.fl = 0 /\ FracIsZero(x) THEN x
  ELSE
    LET d == FracBits - (MantissaBits - 1 - Exponent(x))   \* fraction bits dropped
    IN IF d <= 0 THEN x
       ELSE IF d <= LimbBits THEN
         LET unit == 2^d
             low == x.f3 % unit
             odd == IF d = LimbBits THEN x.f2 % 2 = 1 ELSE (x.f3 \div unit) % 2 = 1
             up == 2 * low > unit \/ (2 * low = unit /\ (sticky \/ odd))
         IN Carry(x.fl, x.f1, x.f2, x.f3 - low + (IF up THEN unit ELSE 0))
       ELSE
         LET unit == 2^(d - LimbBits)
             low2 == x.f2 % unit
             odd == (x.f2 \div unit) % 2 = 1
             half == unit \div 2
             above == low2 > half \/ (low2 = half /\ (x.f3 > 0 \/ sticky))
             tie == low2 = half /\ x.f3 = 0 /\ ~sticky
             up == above \/ (tie /\ odd)
         IN Carry(x.fl, x.f1, x.f2 - low2 + (IF up THEN unit ELSE 0), 0)

RoundToDouble(x, sticky) ==
  IF x.fl >= 0 THEN RoundMagnitude(x, sticky)
  ELSE Negate(RoundMagnitude(Negate(x), sticky))

\* float(t) / d for an integer t >= 0 and d in {10, 100}, and the decimal
\* literal t/d parsed by float(): the correctly rounded quotient
DivInt(t, d) ==
  LET x1 == (t % d) * B
      x2 == (x1 % d) * B
      x3 == (x2 % d) * B
  IN RoundToDouble(Dy(t \div d, x1 \div d, x2 \div d, x3 \div d), x3 % d # 0)

\* x + n for an integer-valued n
AddInt(x, n) == RoundToDouble(Dy(x.fl + n, x.f1, x.f2, x.f3), FALSE)

\* Python's float %, m a positive integer: fmod is exact, and for a negative
\* x the adjustment fmod + m is a rounded addition
PyMod(x, m) == RoundToDouble(Dy(x.fl % m, x.f1, x.f2, x.f3), FALSE)

\* Python's float //, m a positive integer, as an integer
PyFloorDiv(x, m) == x.fl \div m

\* int((secs - int(secs)) * 100) for secs >= 0: the subtraction is exact,
\* the product is rounded, int() truncates
Centiseconds(secs) ==
  RoundToDouble(Carry(0, 100 * secs.f1, 100 * secs.f2, 100 * secs.f3), FALSE).fl

format_time(seconds) ==
  LET secs == PyMod(seconds, 60)
  IN [h |-> PyFloorDiv(seconds, 3600),
      m |-> PyFloorDiv(PyMod(seconds, 3600), 60),
      s |-> secs.fl,
      c |-> Centiseconds(secs)]


(***************************************************************************)
(* Text.  A string is a sequence of Unicode code points.                   *)
(***************************************************************************)
special_ranges ==
  << <<128512, 128591>>, <<127744, 128511>>, <<128640, 128767>>,
     <<127456, 127487>>, <<129280, 129535>>, <<127000, 127600>>,
     <<9728, 9983>>, <<9984, 10175>>, <<11008, 11263>>, <<12800, 13055>>,
     <<13056, 13311>>, <<65024, 65039>>, <<65280, 65519>>,
     <<8192, 8303>>, <<8304, 8351>>, <<8352, 8399>>, <<8400, 8447>>,
     <<8448, 8527>>, <<8528, 8591>>, <<8592, 8703>>, <<8704, 8959>>,
     <<8960, 9215>>, <<9216, 9279>>, <<9280, 9311>>, <<9312, 9471>>,
     <<9472, 9599>>, <<9600, 9631>>, <<9632, 9727>> >>

\* unicodedata.category(char) in (So, Sm, Sk, Sc), for the code points below
\* 128 (the other code points the model uses are letters or lie in a range):
\* $ + < = > ^ ` | ~
SymbolCategory == {36, 43, 60, 61, 62, 94, 96, 124, 126}

is_special_char(code) ==
  \/ \E k \in DOMAIN special_ranges :
        special_ranges[k][1] <= code /\ code <= special_ranges[k][2]
  \/ code \in SymbolCategory

is_emoji(code) == is_special_char(code)

\* str.isspace() of one character
IsSpace(code) ==
  code \in (9..13) \cup (28..32) \cup {133, 160, 5760} \cup (8192..8202)
           \cup {8232, 8233, 8239, 8287, 12288}

RECURSIVE LStrip(_)
LStrip(s) == IF s # <<>> /\ IsSpace(Head(s)) THEN LStrip(Tail(s)) ELSE s

RECURSIVE RStrip(_)
RStrip(s) ==
  IF s # <<>> /\ IsSpace(s[Len(s)]) THEN RStrip(SubSeq(s, 1, Len(s) - 1)) ELSE s

\* str.strip()
Strip(s) == RStrip(LStrip(s))

\* platform.system() is one of these on the three supported hosts
Systems == {"Windows", "Darwin", "Linux"}

get_special_char_font(code, system) ==
  IF \/ (128512 <= code /\ code <= 128591) \/ (127744 <= code /\ code <= 128511)
     \/ (128640 <= code /\ code <= 128767) \/ (129280 <= code /\ code <= 129535)
  THEN IF system = "Windows"
       THEN <<83, 101, 103, 111, 101, 32, 85, 73, 32, 69, 109, 111, 106, 105>>
       ELSE IF system = "Darwin"
       THEN <<65, 112, 112, 108, 101, 32, 67, 111, 108, 111, 114, 32, 69, 109, 111, 106, 105>>
       ELSE <<78, 111, 116, 111, 32, 67, 111, 108, 111, 114, 32, 69, 109, 111, 106, 105>>
  ELSE IF \/ (8704 <= code /\ code <= 8959) \/ (8304 <= code /\ code <= 8351)
          \/ (8448 <= code /\ code <= 8527)
  THEN IF system = "Windows"
       THEN <<83, 101, 103, 111, 101, 32, 85, 73, 32, 83, 121, 109, 98, 111, 108>>
       ELSE IF system = "Darwin"
       THEN <<72, 101, 108, 118, 101, 116, 105, 99, 97, 32, 78, 101, 117, 101>>
       ELSE <<68, 101, 106, 97, 86, 117, 32, 83, 97, 110, 115>>
  ELSE IF system = "Windows"
       THEN <<83, 101, 103, 111, 101, 32, 85, 73, 32, 83, 121, 109, 98, 111, 108>>
       ELSE IF system = "Darwin"
       THEN <<83, 70, 32, 80, 114, 111, 32, 68, 105, 115, 112, 108, 97, 121>>
       ELSE <<78, 111, 116, 111, 32, 83, 97, 110, 115, 32, 83, 121, 109, 98, 111, 108, 115>>

\* "{\fn" + font + "}"
FontTag(font) == <<123, 92, 102, 110>> \o font \o <<125>>

RECURSIVE process_text_with_emoji(_, _, _)
process_text_with_emoji(text, font_name, system) ==
  IF text = <<>> THEN <<>>
  ELSE (IF is_special_char(Head(text))
        THEN FontTag(get_special_char_font(Head(text), system))
               \o <<Head(text)>> \o FontTag(font_name)
        ELSE <<Head(text)>>)
       \o process_text_with_emoji(Tail(text), font_name, system)

RemoveEmoji(text) == SelectSeq(text, LAMBDA c : ~is_emoji(c))

clean_text(text) == Strip(RemoveEmoji(text))

\* the index after the tag that opens at i: one past the first "}" at or
\* after i + 2, or the end of the text when the tag is not closed
RECURSIVE TagEnd(_, _)
TagEnd(text, j) ==
  IF j <= Len(text) /\ text[j] # 125 THEN TagEnd(text, j + 1)
  ELSE IF j <= Len(text) THEN j + 1 ELSE Len(text) + 1

RECURSIVE DisplayLengthFrom(_, _)
DisplayLengthFrom(text, i) ==
  IF i > Len(text) THEN 0
  ELSE IF text[i] = 123 /\ i + 1 <= Len(text) /\ text[i + 1] = 92
  THEN DisplayLengthFrom(text, TagEnd(text, i + 2))
  ELSE (IF is_special_char(text[i]) THEN 2 ELSE IF text[i] > 127 THEN 2 ELSE 1)
       + DisplayLengthFrom(text, i + 1)

calculate_display_length(text) == DisplayLengthFrom(text, 1)

\* keyword in text
Contains(text, keyword) ==
  \E i \in 0..(Len(text) - Len(keyword)) :
     \A j \in 1..Len(keyword) : text[i + j] = keyword[j]


(***************************************************************************)
(* Comment records, configuration and the converter's state.               *)
(***************************************************************************)
\* a field of a comment record: a value, an unparseable string, or absent
Num(n) == [tag |-> "num", val |-> n]
BadNum == [tag |-> "bad", val |-> 0]
NoNum == [tag |-> "missing", val |-> 0]
Str(s) == [tag |-> "str", val |-> s]
NoStr == [tag |-> "missing", val |-> <<>>]

Danmu(text, time, color, position, size) ==
  [text |-> text, time |-> time, color |-> color, position |-> position, size |-> size]

VARIABLES
  danmaku_data,    \* [present, danmu]: the fetched payload and its comment list
  cfg,             \* the keyword arguments of convert_to_ass
  system,          \* platform.system()
  base,            \* the merge file: [exists, readable, lines]
  pc,              \* start, loop, write, writing, done, crashed
  idx,             \* position of the for loop in danmu_list
  events,          \* the events list
  filtered_count,
  diag,            \* the diagnostics printed so far
  hashed,          \* hash() of the strings hashed so far in this process
  chunks,          \* what is still to be written to the open output file
  file,            \* content of the output path
  result,          \* return value of convert_to_ass: "none", "true", "false"
  run,             \* number of the process execution
  history          \* the events lists of the earlier executions

vars == <<danmaku_data, cfg, system, base, pc, idx, events, filtered_count,
          diag, hashed, chunks, file, result, run, history>>

inputs == <<danmaku_data, cfg, system, base>>

\* danmu.get(field, default) converted by float() or int(): "raises" for a
\* string that is no number
Raises(field) == field.tag = "bad"
Get(field, default) == IF field.tag = "missing" THEN default ELSE field.val

get_danmaku_position_style(position) ==
  IF position = 0 THEN "scroll"
  ELSE IF position = 1 THEN "top"
  ELSE IF position = 2 THEN "bottom"
  ELSE "scroll"

\* str.upper() of one ASCII character
Upper(code) == IF 97 <= code /\ code <= 122 THEN code - 32 ELSE code

\* lines 483-490: "#RRGGBB" to "&H00BBGGRR"
translateColor(color) ==
  IF color # <<>> /\ color[1] = 35 /\ Len(color) = 7
  THEN <<38, 72, 48, 48>>
         \o <<Upper(color[6]), Upper(color[7])>>
         \o <<Upper(color[4]), Upper(color[5])>>
         \o <<Upper(color[2]), Upper(color[3])>>
  ELSE <<38, 72, 48, 48, 70, 70, 70, 70, 70, 70>>

\* lines 461-469
PositionDisabled(position, c) ==
  \/ position = 0 /\ ~c.enable_scroll
  \/ position = 1 /\ ~c.enable_top
  \/ position = 2 /\ ~c.enable_bottom

\* lines 472-480
KeywordHit(text, c) ==
  \E k \in DOMAIN c.filter_keywords : Contains(text, c.filter_keywords[k])

NoMove == [on |-> FALSE, start_x |-> 0, y |-> 0, end_x |-> 0]

\* float(parts[2]) of a formatted time: the decimal SS.CC
ParseSeconds(t) == DivInt(100 * t.s + t.c, 100)

\* horizontal positions are held in tenths of a pixel
create_smooth_scroll(start_x, end_x, y_pos, duration, text, ass_color, start_time, style) ==
  LET start_seconds == AddInt(ParseSeconds(start_time),
                              start_time.h * 3600 + start_time.m * 60)
      end_seconds == AddInt(start_seconds, duration)
  IN [start |-> start_time, end |-> format_time(end_seconds), style |-> style,
      move |-> [on |-> TRUE, start_x |-> start_x, y |-> y_pos, end_x |-> end_x],
      color |-> ass_color, text |-> text]

Width(c) == IF c.resolution.ok THEN c.resolution.w ELSE 1920
Height(c) == IF c.resolution.ok THEN c.resolution.h ELSE 1080

\* line 516
AvailableHeight(c) == Height(c) - 2 * c.font_size

\* the values hash(s) % available_height can take
Lanes(c) ==
  IF AvailableHeight(c) > 0 THEN 0..(AvailableHeight(c) - 1)
  ELSE (AvailableHeight(c) + 1)..0

\* the text of a record after line 433
TrimmedText(danmu) == Strip(Get(danmu.text, <<>>))

\* lines 437-447
ShapedText(danmu, c, sys) ==
  IF c.filter_emoji THEN clean_text(TrimmedText(danmu))
  ELSE process_text_with_emoji(TrimmedText(danmu), c.font_name, sys)

\* lines 492-527 for a record that passed the filters; lane is
\* hash(original trimmed text) % available_height
MakeEvent(danmu, c, sys, lane) ==
  LET text == ShapedText(danmu, c, sys)
      time_sec == DivInt(Get(danmu.time, 0), 10)
      position == Get(danmu.position, 0)
      ass_color == translateColor(Get(danmu.color, <<35, 70, 70, 70, 70, 70, 70>>))
      adjusted_time == AddInt(time_sec, c.time_offset)
      start_time == format_time(adjusted_time)
      duration == IF position = 0 THEN c.scroll_duration ELSE c.fixed_duration
      end_time == format_time(AddInt(adjusted_time, duration))
      style == get_danmaku_position_style(position)
      text_width == calculate_display_length(text) * (c.font_size * 6)
      start_x == 10 * Width(c) + text_width + 500
      end_x == 0 - text_width - 500
      y_pos == c.font_size + lane
  IN IF position = 0
     THEN create_smooth_scroll(start_x, end_x, y_pos, duration, text, ass_color,
                               start_time, style)
     ELSE [start |-> start_time, end |-> end_time, style |-> style,
           move |-> NoMove, color |-> ass_color, text |-> text]

\* what one pass of the loop body (lines 432-531) does with a record:
\* "skipped" (line 435), "filtered", "error" (the except clause), "emit",
\* or "crash" (ZeroDivisionError at line 517, which nothing catches)
Outcome(danmu, c, sys) ==
  IF TrimmedText(danmu) = <<>> THEN "skipped"
  ELSE IF c.filter_emoji /\ ShapedText(danmu, c, sys) = <<>> THEN "filtered"
  ELSE IF Raises(danmu.time) \/ Raises(danmu.position) \/ Raises(danmu.size) THEN "error"
  ELSE IF PositionDisabled(Get(danmu.position, 0), c) THEN "filtered"
  ELSE IF KeywordHit(ShapedText(danmu, c, sys), c) THEN "filtered"
  ELSE IF Get(danmu.position, 0) = 0 /\ AvailableHeight(c) = 0 THEN "crash"
  ELSE "emit"

\* hash(s) within one process: fixed once computed, otherwise any value
HashChoices(s, c) ==
  IF \E p \in hashed : p[1] = s THEN {p[2] : p \in {q \in hashed : q[1] = s}}
  ELSE Lanes(c)

(***************************************************************************)
(* merge_ass_files.  A line of the base file is [kind, name, pad]: kind is  *)
(* header ("[...]"), format ("Format:..."), plain or blank; pad says that  *)
(* the line has leading or trailing whitespace.                            *)
(***************************************************************************)
Line(kind, name, pad) == [kind |-> kind, name |-> name, pad |-> pad]
StripLine(l) == IF l.kind = "event" THEN l ELSE [l EXCEPT !.pad = FALSE]
EventLine(e) == [kind |-> "event", name |-> "Dialogue", pad |-> FALSE, ev |-> e]
FormatLine == Line("format", "Format: Layer, Start, End, Style, Name, MarginL, MarginR, MarginV, Effect, Text", FALSE)
BlankLine == Line("blank", "", FALSE)
EventsHeader == "[Events]"

HasSection(sections, name) == \E k \in DOMAIN sections : sections[k].name = name

\* sections[name] = lines: an existing key keeps its place in the dict
SetSection(sections, name, lines) ==
  IF HasSection(sections, name)
  THEN [k \in DOMAIN sections |->
          IF sections[k].name = name THEN [name |-> name, lines |-> lines]
          ELSE sections[k]]
  ELSE Append(sections, [name |-> name, lines |-> lines])

SectionLines(sections, name) ==
  sections[CHOOSE k \in DOMAIN sections : sections[k].name = name].lines

\* lines 616-626
RECURSIVE ParseSections(_, _, _)
ParseSections(lines, sections, current) ==
  IF lines = <<>> THEN sections
  ELSE LET line == StripLine(Head(lines))
       IN IF line.kind = "header"
          THEN ParseSections(Tail(lines), SetSection(sections, line.name, <<>>), line.name)
          ELSE IF current # ""
          THEN ParseSections(Tail(lines),
                 SetSection(sections, current, Append(SectionLines(sections, current), line)),
                 current)
          ELSE ParseSections(Tail(lines), sections, current)

EventLines(evs) == [k \in DOMAIN evs |-> EventLine(evs[k])]

\* lines 628-648
AddEvents(sections, danmaku_events) ==
  IF HasSection(sections, EventsHeader)
  THEN LET old == SectionLines(sections, EventsHeader)
           withFormat == IF \E k \in DOMAIN old : old[k].kind = "format"
                         THEN old ELSE <<FormatLine>> \o old
       IN SetSection(sections, EventsHeader, withFormat \o EventLines(danmaku_events))
  ELSE Append(sections, [name |-> EventsHeader,
                         lines |-> <<FormatLine>> \o EventLines(danmaku_events)])

\* lines 650-657
RECURSIVE Rebuild(_)
Rebuild(sections) ==
  IF sections = <<>> THEN <<>>
  ELSE <<Line("header", Head(sections).name, FALSE)>> \o Head(sections).lines
         \o <<BlankLine>> \o Rebuild(Tail(sections))

\* the merged lines, or failure (the except clause: the file cannot be
\* opened, read or decoded)
merge_ass_files(base_ass_file, danmaku_events) ==
  IF ~base_ass_file.readable THEN [ok |-> FALSE, lines |-> <<>>]
  ELSE [ok |-> TRUE,
        lines |-> Rebuild(AddEvents(ParseSections(base_ass_file.lines, <<>>, ""),
                                    danmaku_events))]

(***************************************************************************)
(* convert_to_ass                                                          *)
(***************************************************************************)
Msg(m, i) == [msg |-> m, at |-> i]

\* line 403, opacity given in hundredths: 1.0 - opacity and the product by
\* 255 are rounded operations, int() truncates
alpha_value(c) ==
  LET opacity == DivInt(c.opacity, 100)
      rest == AddInt(Negate(opacity), 1)
  IN RoundToDouble(Carry(255 * rest.fl, 255 * rest.f1, 255 * rest.f2, 255 * rest.f3),
                   FALSE).fl

\* line 404, the format 02X of a value below 256
alpha_hex(c) ==
  LET digit(v) == IF v < 10 THEN 48 + v ELSE 55 + v
  IN <<digit(alpha_value(c) \div 16), digit(alpha_value(c) % 16)>>

\* lines 407-426: the alpha stands in the three style records
ass_header(c) ==
  [kind |-> "header", width |-> Width(c), height |-> Height(c),
   font_name |-> c.font_name, font_size |-> c.font_size, alpha_hex |-> alpha_hex(c)]

\* the three writes of the pure-danmaku mode
StandaloneChunks(c, evs) ==
  <<ass_header(c), [kind |-> "events", lines |-> evs], [kind |-> "newline"]>>

\* OutputPlan without the fall-back of lines 543-548: a failed merge is
\* written as it is
OutputPlanNoFallback(c, b, evs) ==
  IF c.merge_file /\ b.exists
  THEN [chunks |-> <<[kind |-> "merged", lines |-> merge_ass_files(b, evs).lines]>>,
        said |-> IF merge_ass_files(b, evs).ok THEN <<Msg("merging", 0)>>
                 ELSE <<Msg("merging", 0), Msg("merge error", 0), Msg("merge failed", 0)>>]
  ELSE [chunks |-> StandaloneChunks(c, evs),
        said |-> IF c.merge_file THEN <<Msg("merge file missing", 0)>> ELSE <<>>]

\* lines 535-558: what is written, and what is reported before writing
OutputPlan(c, b, evs) ==
  IF c.merge_file /\ b.exists
  THEN LET merged == merge_ass_files(b, evs)
       IN IF merged.ok
          THEN [chunks |-> <<[kind |-> "merged", lines |-> merged.lines]>>,
                said |-> <<Msg("merging", 0)>>]
          ELSE [chunks |-> StandaloneChunks(c, evs),
                said |-> <<Msg("merging", 0), Msg("merge error", 0), Msg("merge failed", 0)>>]
  ELSE [chunks |-> StandaloneChunks(c, evs),
        said |-> IF c.merge_file THEN <<Msg("merge file missing", 0)>> ELSE <<>>]

\* lines 374-428
Start ==
  /\ pc = "start"
  /\ IF ~danmaku_data.present
     THEN /\ diag' = Append(diag, Msg("no data", 0))
          /\ result' = "false"
          /\ pc' = "done"
     ELSE /\ diag' = IF cfg.resolution.ok THEN diag
                     ELSE Append(diag, Msg("bad resolution", 0))
          /\ result' = result
          \* line 393 converts every time before the loop, outside any try
          /\ pc' = IF \E k \in DOMAIN danmaku_data.danmu : Raises(danmaku_data.danmu[k].time)
                   THEN "crashed"
                   ELSE IF danmaku_data.danmu = <<>> THEN "write" ELSE "loop"
  /\ idx' = 1
  /\ events' = <<>>
  /\ filtered_count' = 0
  /\ UNCHANGED <<inputs, hashed, chunks, file, run, history>>

\* Step with the new event put in front of the list instead of behind it
StepNewestFirst ==
  /\ pc = "loop"
  /\ idx <= Len(danmaku_data.danmu)
  /\ LET danmu == danmaku_data.danmu[idx]
         what == Outcome(danmu, cfg, system)
         next == IF idx = Len(danmaku_data.danmu) THEN "write" ELSE "loop"
     IN /\ idx' = idx + 1
        /\ pc' = IF what = "crash" THEN "crashed" ELSE next
        /\ filtered_count' = IF what = "filtered" THEN filtered_count + 1
                             ELSE filtered_count
        /\ diag' = IF what = "error" THEN Append(diag, Msg("record error", idx))
                   ELSE diag
        /\ IF what = "emit"
           THEN \E lane \in HashChoices(TrimmedText(danmu), cfg) :
                   /\ events' = <<MakeEvent(danmu, cfg, system, lane)>> \o events
                   /\ hashed' = hashed
           ELSE UNCHANGED <<events, hashed>>
  /\ UNCHANGED <<inputs, chunks, file, result, run, history>>

\* one pass of the for loop, lines 431-531
Step ==
  /\ pc = "loop"
  /\ idx <= Len(danmaku_data.danmu)
  /\ LET danmu == danmaku_data.danmu[idx]
         what == Outcome(danmu, cfg, system)
         next == IF idx = Len(danmaku_data.danmu) THEN "write" ELSE "loop"
     IN /\ idx' = idx + 1
        /\ pc' = IF what = "crash" THEN "crashed" ELSE next
        /\ filtered_count' = IF what = "filtered" THEN filtered_count + 1
                             ELSE filtered_count
        /\ diag' = IF what = "error" THEN Append(diag, Msg("record error", idx))
                   ELSE diag
        /\ IF what = "emit"
           THEN IF Get(danmu.position, 0) = 0
                THEN \E lane \in HashChoices(TrimmedText(danmu), cfg) :
                        /\ events' = Append(events, MakeEvent(danmu, cfg, system, lane))
                        /\ hashed' = hashed \cup {<<TrimmedText(danmu), lane>>}
                ELSE /\ events' = Append(events, MakeEvent(danmu, cfg, system, 0))
                     /\ hashed' = hashed
           ELSE UNCHANGED <<events, hashed>>
  /\ UNCHANGED <<inputs, chunks, file, result, run, history>>

\* lines 534-546 or 552-555: the mode is chosen and the output file is
\* opened for writing, which empties it, or fails to open
OpenOutput ==
  /\ pc = "write"
  /\ LET plan == OutputPlan(cfg, base, events)
     IN \E opens \in BOOLEAN :
          IF opens
          THEN /\ file' = <<>>
               /\ chunks' = plan.chunks
               /\ diag' = diag \o plan.said
               /\ pc' = "writing"
               /\ result' = result
          ELSE /\ diag' = diag \o plan.said \o <<Msg("write error", 0)>>
               /\ pc' = "done"
               /\ result' = "false"
               /\ UNCHANGED <<file, chunks>>
  /\ UNCHANGED <<inputs, idx, events, filtered_count, hashed, run, history>>

\* one f.write succeeds; after the last the file is closed and the
\* function reports and returns True (lines 542-562)
WriteChunk ==
  /\ pc = "writing"
  /\ chunks # <<>>
  /\ file' = Append(file, Head(chunks))
  /\ chunks' = Tail(chunks)
  /\ IF Len(chunks) = 1
     THEN /\ pc' = "done"
          /\ result' = "true"
          /\ diag' = diag \o <<Msg("written", Len(events))>>
                       \o (IF filtered_count > 0 THEN <<Msg("filtered", filtered_count)>> ELSE <<>>)
     ELSE UNCHANGED <<pc, result, diag>>
  /\ UNCHANGED <<inputs, idx, events, filtered_count, hashed, run, history>>

\* a write raises IOError (lines 564-566)
WriteFail ==
  /\ pc = "writing"
  /\ chunks # <<>>
  /\ pc' = "done"
  /\ result' = "false"
  /\ diag' = Append(diag, Msg("write error", 0))
  /\ UNCHANGED <<inputs, idx, events, filtered_count, hashed, chunks, file, run, history>>

Next == Start \/ Step \/ OpenOutput \/ WriteChunk \/ WriteFail

PreviousContent == <<[kind |-> "previous"]>>

InitOf(Data, Cfgs, Sys, Bases) ==
  /\ danmaku_data \in Data
  /\ cfg \in Cfgs
  /\ system \in Sys
  /\ base \in Bases
  /\ pc = "start"
  /\ idx = 1
  /\ events = <<>>
  /\ filtered_count = 0
  /\ diag = <<>>
  /\ hashed = {}
  /\ chunks = <<>>
  /\ file = PreviousContent
  /\ result = "none"
  /\ run = 1
  /\ history = <<>>

(***************************************************************************)
(* Inputs.                                                                 *)
(***************************************************************************)
\* "Noto Sans CJK TC"
DefaultFont == <<78, 111, 116, 111, 32, 83, 97, 110, 115, 32, 67, 74, 75, 32, 84, 67>>
White == Str(<<35, 70, 70, 70, 70, 70, 70>>)

\* the defaults of convert_to_ass (line 353) on a screen whose height leaves
\* `lanes` scroll lanes at font size 42; opacity is held in hundredths
BaseCfg(lanes) ==
  [time_offset |-> 0, scroll_duration |-> 12, fixed_duration |-> 8,
   font_size |-> 42, font_name |-> DefaultFont, opacity |-> 80,
   resolution |-> [ok |-> TRUE, w |-> 1920, h |-> 84 + lanes],
   enable_scroll |-> TRUE, enable_top |-> TRUE, enable_bottom |-> TRUE,
   filter_keywords |-> <<>>, merge_file |-> FALSE, filter_emoji |-> TRUE]

NoBase == [exists |-> FALSE, readable |-> FALSE, lines |-> <<>>]
Payload(list) == [present |-> TRUE, danmu |-> list]

\* "", "  ", "a", "ab", " a", the star U+2605 alone, " * ", "a*b"
FilterTexts ==
  {<<>>, <<32, 32>>, <<97>>, <<97, 98>>, <<32, 97>>, <<9733>>, <<32, 9733, 32>>,
   <<97, 9733, 98>>}

\* none, ["ab"], [star], ["fn"], ["x", "a"]
FilterKeywordLists ==
  {<<>>, << <<97, 98>> >>, << <<9733>> >>, << <<102, 110>> >>, << <<120>>, <<97>> >>}

FilterRecords ==
  {Danmu(Str(t), Num(100), White, Num(p), Num(1)) : t \in FilterTexts, p \in 0..3}

FilterCfgs ==
  {[BaseCfg(1) EXCEPT !.filter_keywords = k, !.filter_emoji = fe,
                      !.enable_scroll = es, !.enable_top = et, !.enable_bottom = eb] :
     k \in FilterKeywordLists, fe \in BOOLEAN, es \in BOOLEAN, et \in BOOLEAN,
     eb \in BOOLEAN}

Init ==
  InitOf({Payload(<<r>>) : r \in FilterRecords}, FilterCfgs, Systems, {NoBase})

Spec == Init /\ [][Next]_vars

\* the record the loop is about to process
Current == danmaku_data.danmu[idx]
AtRecord == pc = "loop" /\ idx <= Len(danmaku_data.danmu)
RawText(danmu) == Get(danmu.text, <<>>)

\* C1: a record whose text is empty or whitespace-only, before stripping the
\* special characters or (in strip mode) after it, produces no event and
\* increments the filtered count by exactly 1
C1_EmptyTextCounted ==
  [][(AtRecord /\ (TrimmedText(Current) = <<>>
                   \/ (cfg.filter_emoji /\ clean_text(TrimmedText(Current)) = <<>>)))
       => (events' = events /\ filtered_count' = filtered_count + 1)]_vars

\* C3: a record whose comment text contains a configured keyword yields no
\* event and is counted as filtered, in both modes
C3_KeywordAlwaysFilters ==
  [][(AtRecord /\ \E k \in DOMAIN cfg.filter_keywords :
                     Contains(RawText(Current), cfg.filter_keywords[k]))
       => (events' = events /\ filtered_count' = filtered_count + 1)]_vars

\* the position class of a record is enabled (an unrecognized position is
\* of class Scroll)
ClassEnabled(position, c) ==
  IF position = 1 THEN c.enable_top
  ELSE IF position = 2 THEN c.enable_bottom
  ELSE c.enable_scroll

WellFormed(danmu) ==
  /\ danmu.text.tag = "str" /\ danmu.time.tag = "num" /\ danmu.color.tag = "str"
  /\ danmu.position.tag = "num" /\ danmu.size.tag = "num"

\* C4: a well-formed record with non-empty shaped text, an enabled position
\* class and no keyword in its comment text yields exactly one event and is
\* not counted as filtered
C4_OnlyThreeReasons ==
  [][(AtRecord /\ WellFormed(Current)
        /\ ShapedText(Current, cfg, system) # <<>>
        /\ ClassEnabled(Current.position.val, cfg)
        /\ ~\E k \in DOMAIN cfg.filter_keywords :
               Contains(RawText(Current), cfg.filter_keywords[k]))
       => (Len(events') = Len(events) + 1 /\ filtered_count' = filtered_count)]_vars

\* C5: a record whose position is not 0, 1 or 2 is treated exactly as the
\* same record with position 0: filtered when that one is, and otherwise
\* its event is the Scroll event of that one
C5_UnknownPositionIsScroll ==
  [][(AtRecord /\ WellFormed(Current) /\ Current.position.val \notin {0, 1, 2})
       => LET asScroll == [Current EXCEPT !.position = Num(0)]
              what == Outcome(asScroll, cfg, system)
          IN /\ what = "filtered"
                  => (events' = events /\ filtered_count' = filtered_count + 1)
             /\ what = "skipped" => (events' = events /\ filtered_count' = filtered_count)
             /\ what = "emit"
                  => \E lane \in Lanes(cfg) :
                        events' = Append(events, MakeEvent(asScroll, cfg, system, lane))]_vars

(***************************************************************************)
(* Timing: one record per run, every record emitted.                       *)
(***************************************************************************)
TimeSamples == {0, 1, 3, 10, 12, 41, 100, 599, 600, 35999, 36000, 36012}
OffsetSamples == {0, 3, 0 - 5}

TimeRecords ==
  {Danmu(Str(<<97>>), Num(t), White, Num(p), Num(1)) : t \in TimeSamples, p \in 0..2}

InitTime ==
  InitOf({Payload(<<r>>) : r \in TimeRecords},
         {[BaseCfg(1) EXCEPT !.time_offset = o] : o \in OffsetSamples},
         {"Linux"}, {NoBase})

SpecTime == InitTime /\ [][Next]_vars

\* H:MM:SS.CC of a time given exactly, in centiseconds
ExactRender(cs) ==
  [h |-> cs \div 360000, m |-> (cs % 360000) \div 6000,
   s |-> (cs % 6000) \div 100, c |-> cs % 100]

\* C2: the start field of an event renders timestamp_tenths/10 + time_offset
\* and its end field renders start + duration, the duration being
\* scroll_duration for Scroll records and fixed_duration for Top and Bottom
C2_TimesExact ==
  \A k \in DOMAIN events :
    LET danmu == danmaku_data.danmu[k]
        cs == 10 * danmu.time.val + 100 * cfg.time_offset
        duration == IF danmu.position.val = 0 THEN cfg.scroll_duration
                    ELSE cfg.fixed_duration
    IN /\ events[k].start = ExactRender(cs)
       /\ events[k].end = ExactRender(cs + 100 * duration)

(***************************************************************************)
(* Malformed records: lists of one or two records.                         *)
(***************************************************************************)
GoodRecord == Danmu(Str(<<97>>), Num(100), White, Num(1), Num(1))

RecordSamples ==
  {GoodRecord,
   [GoodRecord EXCEPT !.time = BadNum], [GoodRecord EXCEPT !.time = NoNum],
   [GoodRecord EXCEPT !.position = BadNum], [GoodRecord EXCEPT !.position = NoNum],
   [GoodRecord EXCEPT !.size = BadNum], [GoodRecord EXCEPT !.size = NoNum],
   [GoodRecord EXCEPT !.text = NoStr], [GoodRecord EXCEPT !.color = NoStr],
   [GoodRecord EXCEPT !.text = Str(<<9733>>), !.position = BadNum]}

InitRecord ==
  InitOf({Payload(<<r>>) : r \in RecordSamples}
           \cup {Payload(<<r, s>>) : r \in RecordSamples, s \in RecordSamples}
           \cup {[present |-> FALSE, danmu |-> <<>>]},
         {[BaseCfg(1) EXCEPT !.filter_emoji = fe] : fe \in BOOLEAN},
         {"Linux"}, {NoBase})

SpecRecord == InitRecord /\ [][Next]_vars

Malformed(danmu) ==
  \/ \E f \in {"text", "time", "color", "position", "size"} : danmu[f].tag = "missing"
  \/ \E f \in {"time", "position", "size"} : danmu[f].tag = "bad"

\* C6: a record that misses a required field or has an unparseable numeric
\* field is skipped with a diagnostic, counted neither as emitted nor as
\* filtered, and the run never aborts because of it
C6_BadRecordIsolated ==
  /\ [](pc # "crashed")
  /\ [][(AtRecord /\ Malformed(Current))
          => /\ events' = events
             /\ filtered_count' = filtered_count
             /\ diag' = Append(diag, Msg("record error", idx))]_vars

(***************************************************************************)
(* Colours.                                                                *)
(***************************************************************************)
\* "#" and six of 0, A, f, g; then "", "#fff", "#0000000", "fffffff", "0#ffff0"
ColorSamples ==
  {<<35>> \o s : s \in [1..6 -> {48, 65, 102, 103}]}
    \cup {<<>>, <<35, 102, 102, 102>>, <<35, 48, 48, 48, 48, 48, 48, 48>>,
          <<102, 102, 102, 102, 102, 102, 102>>, <<48, 35, 102, 102, 102, 102, 48>>}

InitColor ==
  InitOf({Payload(<<Danmu(Str(<<97>>), Num(100), Str(col), Num(1), Num(1))>>) :
            col \in ColorSamples},
         {BaseCfg(1)}, {"Linux"}, {NoBase})

SpecColor == InitColor /\ [][Next]_vars

\* the value of a hexadecimal digit, -1 for any other character
HexValue(code) ==
  IF 48 <= code /\ code <= 57 THEN code - 48
  ELSE IF 65 <= code /\ code <= 70 THEN code - 55
  ELSE IF 97 <= code /\ code <= 102 THEN code - 87
  ELSE 0 - 1

\* the upper-case digit of a value
HexDigit(v) == IF v < 10 THEN 48 + v ELSE 55 + v

IsRRGGBB(col) ==
  /\ Len(col) = 7 /\ col[1] = 35
  /\ \A k \in 2..7 : HexValue(col[k]) >= 0

\* C10: "#RRGGBB" gives "&H00" and the pairs BB, GG, RR in upper case with
\* their values kept; every other colour string gives "&H00FFFFFF"
C10_ColorMarker ==
  \A k \in DOMAIN events :
    LET col == danmaku_data.danmu[k].color.val
        pair(i) == <<HexDigit(HexValue(col[i])), HexDigit(HexValue(col[i + 1]))>>
    IN events[k].color =
         IF IsRRGGBB(col) THEN <<38, 72, 48, 48>> \o pair(6) \o pair(4) \o pair(2)
         ELSE <<38, 72, 48, 48, 70, 70, 70, 70, 70, 70>>

(***************************************************************************)
(* Merging into a base file.                                               *)
(***************************************************************************)
MaxBaseLines == 3

BaseLineSamples ==
  {Line("header", "[Script Info]", FALSE), Line("header", EventsHeader, FALSE),
   Line("format", "Format: Layer, Start, End, Style, Text", FALSE),
   Line("plain", "Dialogue: old", FALSE), Line("plain", "Title: base", TRUE),
   Line("blank", "", FALSE)}

BaseDocs == UNION {[1..n -> BaseLineSamples] : n \in 0..MaxBaseLines}

\* the file is missing; it exists and cannot be opened, read or decoded; or
\* it is read
Bases ==
  {NoBase, [exists |-> TRUE, readable |-> FALSE, lines |-> <<>>]}
    \cup {[exists |-> TRUE, readable |-> TRUE, lines |-> d] : d \in BaseDocs}

MergeLists ==
  {<<GoodRecord>>, <<GoodRecord, [GoodRecord EXCEPT !.text = Str(<<97, 98>>)]>>}

InitMerge ==
  InitOf({Payload(l) : l \in MergeLists}, {[BaseCfg(1) EXCEPT !.merge_file = TRUE]},
         {"Linux"}, Bases)

SpecMerge == InitMerge /\ [][Next]_vars

\* the non-blank lines, stripped, that stand under a header called name
RECURSIVE BodyOf(_, _, _)
BodyOf(lines, name, inside) ==
  IF lines = <<>> THEN <<>>
  ELSE LET l == StripLine(Head(lines))
       IN IF l.kind = "header" THEN BodyOf(Tail(lines), name, l.name = name)
          ELSE (IF inside /\ l.kind # "blank" THEN <<l>> ELSE <<>>)
                 \o BodyOf(Tail(lines), name, inside)

\* the header names of a document, each once, in order of first occurrence
RECURSIVE HeaderOrder(_, _)
HeaderOrder(lines, seen) ==
  IF lines = <<>> THEN <<>>
  ELSE LET l == Head(lines)
       IN IF l.kind = "header" /\ l.name \notin seen
          THEN <<l.name>> \o HeaderOrder(Tail(lines), seen \cup {l.name})
          ELSE HeaderOrder(Tail(lines), seen)

Range(s) == {s[k] : k \in DOMAIN s}

MergedWritten ==
  /\ pc = "done" /\ result = "true"
  /\ cfg.merge_file /\ base.exists /\ base.readable

\* C7: the merged document holds, in its Events section, the Events lines of
\* the base in their order and then the new lines in theirs (after a standard
\* Format line if the base had none); every other section of the base keeps
\* its lines; and the sections keep the base's order, a new Events section
\* coming last
C7_MergeKeepsBase ==
  MergedWritten =>
    LET merged == file[1].lines
        order == HeaderOrder(base.lines, {})
    IN /\ SelectSeq(BodyOf(merged, EventsHeader, FALSE), LAMBDA l : l # FormatLine)
            = BodyOf(base.lines, EventsHeader, FALSE) \o EventLines(events)
       /\ \A name \in Range(order) \ {EventsHeader} :
             BodyOf(merged, name, FALSE) = BodyOf(base.lines, name, FALSE)
       /\ HeaderOrder(merged, {})
            = IF EventsHeader \in Range(order) THEN order
              ELSE Append(order, EventsHeader)

MergeSourceFails == cfg.merge_file /\ (~base.exists \/ ~base.readable)

Said(m) == \E k \in DOMAIN diag : diag[k].msg = m

\* C8: with a merge target whose base file is missing or cannot be read, the
\* run does not abort: it reports the failure, writes the standalone document
\* (header with styles and the Events format line, then exactly the events),
\* and returns success unless the output itself cannot be written
C8_MergeFallback ==
  /\ MergeSourceFails => pc # "crashed"
  /\ (MergeSourceFails /\ pc = "done") =>
       /\ IF base.exists THEN Said("merge failed") ELSE Said("merge file missing")
       /\ result = "true" \/ (result = "false" /\ Said("write error"))
       /\ result = "true" => file = StandaloneChunks(cfg, events)

\* C8 witness: an unreadable base file, two events, the standalone document
\* written and success returned
C8_Witness ==
  /\ pc = "done" /\ cfg.merge_file /\ base.exists /\ ~base.readable
  /\ result = "true" /\ Len(events) = 2
  /\ file = StandaloneChunks(cfg, events)

(***************************************************************************)
(* Two executions with the same input and configuration.                   *)
(***************************************************************************)
MaxRuns == 2

\* the process ends and the program is started again
Restart ==
  /\ pc = "done"
  /\ run < MaxRuns
  /\ run' = run + 1
  /\ history' = Append(history, events)
  /\ pc' = "start"
  /\ idx' = 1
  /\ events' = <<>>
  /\ filtered_count' = 0
  /\ diag' = <<>>
  /\ hashed' = {}
  /\ chunks' = <<>>
  /\ result' = "none"
  /\ UNCHANGED <<inputs, file>>

NextRuns == Next \/ Restart

\* "a", " a", "ab", all Scroll
HashRecords ==
  {Danmu(Str(t), Num(100), White, Num(0), Num(1)) : t \in {<<97>>, <<32, 97>>, <<97, 98>>}}

InitHash ==
  InitOf({Payload(<<r>>) : r \in HashRecords}
           \cup {Payload(<<r, s>>) : r \in HashRecords, s \in HashRecords},
         {BaseCfg(3)}, {"Linux"}, {NoBase})

SpecHash == InitHash /\ [][NextRuns]_vars

\* C9: two Scroll records with the same trimmed original text get the same
\* y, within one run and across two runs with the same configuration
\* (every record of these runs is emitted: events[k] comes from record k)
C9_SameTextSameLane ==
  LET text(k) == TrimmedText(danmaku_data.danmu[k])
  IN /\ \A i \in DOMAIN events, j \in DOMAIN events :
          text(i) = text(j) => events[i].move.y = events[j].move.y
     /\ \A r \in DOMAIN history :
          \A i \in DOMAIN history[r], j \in DOMAIN events :
            text(i) = text(j) => history[r][i].move.y = events[j].move.y

(***************************************************************************)
(* Order of the events: lists of up to MaxRecords records whose times      *)
(* decrease along the list, some of them dropped on the way.               *)
(***************************************************************************)
MaxRecords == 3

\* Top "a", Scroll "ab", Bottom "a", then a blank text (skipped), a lone
\* star (stripped to nothing) and a record whose position is no number
OrderRecords(time) ==
  {Danmu(Str(<<97>>), Num(time), White, Num(1), Num(1)),
   Danmu(Str(<<97, 98>>), Num(time), White, Num(0), Num(1)),
   Danmu(Str(<<97>>), Num(time), White, Num(2), Num(1)),
   Danmu(Str(<<32>>), Num(time), White, Num(1), Num(1)),
   Danmu(Str(<<9733>>), Num(time), White, Num(1), Num(1)),
   Danmu(Str(<<97>>), Num(time), White, BadNum, Num(1))}

\* the k-th record of a list has time 100 * (MaxRecords + 1 - k)
OrderLists ==
  UNION {{l \in [1..n -> UNION {OrderRecords(100 * t) : t \in 1..MaxRecords}] :
            \A k \in 1..n : l[k].time.val = 100 * (MaxRecords + 1 - k)} :
         n \in 1..MaxRecords}

InitOrder ==
  InitOf({Payload(l) : l \in OrderLists},
         {[BaseCfg(1) EXCEPT !.filter_keywords = k] : k \in {<<>>, << <<98>> >>}},
         {"Linux"}, {NoBase})

SpecOrder == InitOrder /\ [][Next]_vars

\* the events of the first n records of the list, one for each record that
\* is emitted, in the order of the list (with one lane, hash % 1 = 0)
RECURSIVE EventsOfFirst(_)
EventsOfFirst(n) ==
  IF n = 0 THEN <<>>
  ELSE LET danmu == danmaku_data.danmu[n]
       IN IF Outcome(danmu, cfg, system) = "emit"
          THEN Append(EventsOfFirst(n - 1), MakeEvent(danmu, cfg, system, 0))
          ELSE EventsOfFirst(n - 1)

\* C11: the records are processed in input order, each gives at most one
\* event, and the events stand in the list, and in the written document, in
\* the order of their records (they are not sorted by start time)
C11_InputOrder ==
  /\ events = EventsOfFirst(IF pc = "start" THEN 0 ELSE idx - 1)
  /\ pc \in {"write", "writing", "done"} /\ danmaku_data.present
       => idx = Len(danmaku_data.danmu) + 1
  /\ result = "true" => file[2].lines = EventsOfFirst(Len(danmaku_data.danmu))

\* C11 witness: three records, the second dropped, the first and the third
\* written in the order of the list although the third starts earlier
C11_Witness ==
  /\ pc = "done" /\ result = "true"
  /\ Len(danmaku_data.danmu) = 3 /\ Len(events) = 2
  /\ Outcome(danmaku_data.danmu[2], cfg, system) # "emit"
  /\ events[1].start.s = 30 /\ events[2].start.s = 10
  /\ file[2].lines = events
(***************************************************************************)
(* Display width of shaped text: one Scroll record per run, fallback-font  *)
(* mode, texts over "{", "\", "}", "a" and the star.                        *)
(***************************************************************************)
MaxTextLen == 3

WidthTexts == UNION {[1..n -> {123, 92, 125, 97, 9733}] : n \in 1..MaxTextLen}

\* the default font and "F"
WidthFonts == {DefaultFont, <<70>>}

InitWidth ==
  InitOf({Payload(<<Danmu(Str(t), Num(100), White, Num(0), Num(1))>>) : t \in WidthTexts},
         {[BaseCfg(1) EXCEPT !.filter_emoji = FALSE, !.font_name = f] : f \in WidthFonts},
         Systems, {NoBase})

SpecWidth == InitWidth /\ [][Next]_vars

\* C12: the display length of the shaped text (the text of the event, from
\* which the scroll start position is computed) equals the display length
\* of the original text, also for texts holding "{\" next to special
\* characters
C12_ShapingKeepsWidth ==
  \A k \in DOMAIN events :
    LET text == TrimmedText(danmaku_data.danmu[k])
    IN /\ events[k].text = process_text_with_emoji(text, cfg.font_name, system)
       /\ calculate_display_length(events[k].text) = calculate_display_length(text)
       /\ events[k].move.start_x
            = 10 * Width(cfg) + calculate_display_length(text) * (cfg.font_size * 6) + 500
(***************************************************************************)
(* The alpha of the styles: one Top record per run, the opacity running    *)
(* over the whole percents.                                                *)
(***************************************************************************)
InitAlpha ==
  InitOf({Payload(<<GoodRecord>>)}, {[BaseCfg(1) EXCEPT !.opacity = p] : p \in 0..100},
         {"Linux"}, {NoBase})

SpecAlpha == InitAlpha /\ [][Next]_vars

\* the integers nearest to (1 - p/100) * 255: one, or two at a tie
NearestAlpha(p) ==
  {n \in 0..255 : 2 * (100 - p) * 255 - 100 <= 200 * n /\ 200 * n <= 2 * (100 - p) * 255 + 100}

\* C13: the alpha written into the style records is round((1 - opacity) * 255)
\* as two upper-case hexadecimal digits, 33 for the default opacity 0.8
C13_AlphaRounded ==
  result = "true" =>
    \E n \in NearestAlpha(cfg.opacity) :
      file[1].alpha_hex = <<HexDigit(n \div 16), HexDigit(n % 16)>>
(***************************************************************************)
(* Writing the output.                                                     *)
(***************************************************************************)
\* C14: the output path holds, at every point of a run, also of one whose
\* write fails part-way, either its previous content or the complete
\* document (header and all events, or the whole merged document)
C14_AtomicWrite ==
  \/ file = PreviousContent
  \/ file = OutputPlan(cfg, base, events).chunks
====
